---- MODULE Spec2Model ----
(***************************************************************************)
(* A model of CHAN-DST/CHAN.py: the turn encoder (_truncate_seq_pair and   *)
(* the encoding part of SUMBTDataset.__init__), the dialogue assembler     *)
(* (the grouping part of SUMBTDataset.__init__), the batch collator        *)
(* (SUMBTDataset.__getitem__ and collate_fn) and the loops of main() that  *)
(* consume the batches.                                                    *)
(*                                                                         *)
(* Python lists are sequences; list.pop() drops the last element.          *)
(***************************************************************************)
EXTENDS Integers, Sequences, FiniteSets, TLC

\* ------------------------------------------------------------------ bounds
\* longest token list handed to _truncate_seq_pair
MaxTokens == 3
\* largest max_length handed to _truncate_seq_pair
MaxBudget == 4

\* largest --eval_batch_size
MaxBatchSize == 2
\* most rows of a tsv file handed to _create_examples
MaxRows == 3
\* how far off its declared range a tracker's id can lie
MaxShift == 3
\* most examples of an example list in no particular order
MaxExamples == 3
\* largest --num_train_epochs
MaxEpochs == 2
\* largest --patience
MaxPatience == 1
\* most devices torch.cuda.device_count() reports
MaxGpus == 2
\* most turns one dialogue of the input file holds
MaxTurns == 3
\* largest configured --max_turn_length
MaxCap == 2
\* longest text (in words) of the encoder's inputs
MaxWords == 3
\* largest configured --max_seq_length
MaxSeqLength == 6

\* ------------------------------------------------------------- vocabulary
\* what tokenizer.tokenize can return for a word: an ordinary word piece or
\* the turn separator '#' written by _create_examples
Tokens == {"w", "#"}

Min(x, y) == IF x <= y THEN x ELSE y

Max(x, y) == IF x >= y THEN x ELSE y

\* all sequences over S of length 0..n
SeqUpTo(S, n) == UNION {[1..k -> S] : k \in 0..n}

IsPrefix(s, t) == Len(s) <= Len(t) /\ s = SubSeq(t, 1, Len(s))

\* list.pop(): the list without its last element
Pop(s) == SubSeq(s, 1, Len(s) - 1)

\* largest element of a non-empty set of numbers (Python's max over a list)
MaxOf(S) == CHOOSE x \in S : \A y \in S : y <= x

\* a local that no statement has assigned yet (pred_slot of a batch is never
\* empty)
Unbound == <<>>

\* no batch collated yet
NoBatch ==
  [input_ids |-> <<>>, input_len |-> <<>>, label_ids |-> <<>>, update |-> <<>>,
   guids |-> <<>>, num_turns |-> <<>>]

\* Python's None for prev_dialogue_idx (a dialogue index is never empty)
None == <<>>

VARIABLES
  tokens_a,    \* _truncate_seq_pair: the first list, truncated in place
  tokens_b,    \* _truncate_seq_pair: the second list, truncated in place
  max_length,  \* _truncate_seq_pair: the budget
  arg_a,       \* tokens_a as it was when the call started
  arg_b,       \* tokens_b as it was when the call started
  tpc,         \* "idle": no call; "loop": at the head of `while True`; "done": returned
  examples,          \* SUMBTDataset.__init__: the InputExample list
  label_list,        \* per slot, the ontology's candidate values
  max_seq_length,    \* the max_seq_length argument
  cfg_max_turn_length, \* the max_turn_length argument
  max_turn_length,   \* the local max_turn_length after line 193
  ex_index,          \* how many examples the main loop has consumed
  features,          \* the dialogue being collected
  all_features,      \* self.all_features
  prev_dialogue_idx, \* None before the first example
  prev_turn_idx,     \* unbound (-1 here, never read) before the first example
  dpc,               \* "idle", "new", "loop", "done", "error" (KeyError / IndexError)
  n_gpu,             \* main: torch.cuda.device_count()
  weights,           \* main: the checkpoint loaded into the tracker
  id_shift,          \* how far the tracker's ids lie off its declared range (0: in range)
  next_index,        \* test_dataloader: dialogues the sequential sampler has given out
  items,             \* the __getitem__ results handed to collate_fn last
  batch,             \* the batch collate_fn returned last (NoBatch before the first)
  pred_slot,         \* main: the local pred_slot (Unbound until assigned)
  predictions,       \* main: the predictions dict, key <<guid, tid>>
  lpc,               \* test pass: "idle", "loop", "done" (dumped), "error" (raised)
  eval_batch_size,   \* main: args.eval_batch_size
  eval_index,        \* eval_dataloader: dialogues the sequential sampler has given out
  nb_eval_examples,  \* main: the running count of valid turns
  eval_accuracy,     \* main: the running sum of acc * valid turns
  accuracies,        \* main: the running counts of the second report
  joint_report,      \* the joint accuracies written to eval_all_accuracies.txt
  epc,               \* evaluation pass: "idle", "loop", "reported", "error" (raised)
  lines,             \* _create_examples: the rows of the tsv file
  accumulation,      \* _create_examples: the accumulation argument
  line_index,        \* how many rows the loop has consumed
  prev_dialogue_index, \* None before the first row
  acc_text_a,        \* the local text_a (unbound, here empty, before the first row)
  acc_text_b,        \* the local text_b
  created,           \* the local examples
  cpc,               \* "idle", "loop", "done" (returned), "error" (IndexError)
  do_train,          \* main: args.do_train
  num_train_epochs,  \* main: int(args.num_train_epochs)
  patience,          \* main: args.patience
  dev_metrics,       \* per epoch, the dev accuracy and the dev loss term it would measure
  epoch,             \* the epochs of the training loop that have run
  last_update,       \* None (NoEpoch) or the epoch of the last loss improvement
  best_acc,          \* None (NoMetric) or the best dev accuracy
  best_loss,         \* None (NoMetric) or the best dev loss term
  acc_checkpoint,    \* the epoch whose model the accuracy-best file holds (NoEpoch: none)
  rpc                \* training block: "idle", "start", "skipped", "loop", "done", "error"

truncVars == <<tokens_a, tokens_b, max_length, arg_a, arg_b, tpc>>

dataVars == <<examples, label_list, max_seq_length, cfg_max_turn_length,
              max_turn_length, ex_index, features, all_features,
              prev_dialogue_idx, prev_turn_idx, dpc>>

testVars == <<n_gpu, weights, id_shift, next_index, items, batch, pred_slot, predictions, lpc>>

evalVars == <<eval_batch_size, eval_index, nb_eval_examples, eval_accuracy,
              accuracies, joint_report, epc>>

createVars == <<lines, accumulation, line_index, prev_dialogue_index,
                acc_text_a, acc_text_b, created, cpc>>

trainVars == <<do_train, num_train_epochs, patience, dev_metrics, epoch,
               last_update, best_acc, best_loss, acc_checkpoint, rpc>>

\* the state of the parts modelled after the evaluation pass
restVars == <<createVars, trainVars>>

vars == <<truncVars, dataVars, testVars, evalVars, restVars>>

\* --------------------------------------------------- _truncate_seq_pair
\* the `total_length <= max_length` test that leaves the loop
TruncFits(a, b, m) == Len(a) + Len(b) <= m

PopFromShorter(a, b) == IF Len(a) > Len(b) THEN <<a, Pop(b)>> ELSE <<Pop(a), b>>

PopTieFromA(a, b) == IF Len(a) >= Len(b) THEN <<Pop(a), b>> ELSE <<a, Pop(b)>>

\* one pass through the body after the test: the list that loses its last token
TruncPop(a, b) == IF Len(a) > Len(b) THEN <<Pop(a), b>> ELSE <<a, Pop(b)>>

RECURSIVE TruncateSeqPair(_, _, _)
\* the whole call: the pair of lists it leaves
TruncateSeqPair(a, b, m) ==
  IF TruncFits(a, b, m) THEN <<a, b>>
  ELSE LET p == TruncPop(a, b) IN TruncateSeqPair(p[1], p[2], m)

TruncIdle ==
  /\ tokens_a = <<>>
  /\ tokens_b = <<>>
  /\ max_length = 0
  /\ arg_a = <<>>
  /\ arg_b = <<>>
  /\ tpc = "idle"

\* `if total_length <= max_length: break`
TruncBreak ==
  /\ tpc = "loop"
  /\ TruncFits(tokens_a, tokens_b, max_length)
  /\ tpc' = "done"
  /\ UNCHANGED <<tokens_a, tokens_b, max_length, arg_a, arg_b>>
  /\ UNCHANGED <<dataVars, testVars, evalVars, restVars>>

\* one iteration that does not break: pop from one of the lists
TruncStep ==
  /\ tpc = "loop"
  /\ ~TruncFits(tokens_a, tokens_b, max_length)
  /\ LET p == TruncPop(tokens_a, tokens_b) IN
       /\ tokens_a' = p[1]
       /\ tokens_b' = p[2]
  /\ UNCHANGED <<max_length, arg_a, arg_b, tpc>>
  /\ UNCHANGED <<dataVars, testVars, evalVars, restVars>>


\* ---------------------------------------------------------- the tokenizer
\* The tokenizer is a library (BertTokenizer).  A text is a sequence of
\* chunks: a word "w", the separator "#", or white space " "; tokenize gives
\* one token per word or separator and none for white space, so a text that
\* is not empty can have no token.
Words == {"w", "#", " "}

IsToken(x) == x # " "

Tokenize(text) == SelectSeq(text, IsToken)

\* [x if x != "#" else "[SEP]" for x in tokenizer.tokenize(text)]
ReplaceHash(toks) == [i \in 1..Len(toks) |-> IF toks[i] = "#" THEN "[SEP]" ELSE toks[i]]

\* tokenizer.convert_tokens_to_ids: the vocabulary's ids ([PAD] is 0)
TokenId(tok) == CASE tok = "[CLS]" -> 2 [] tok = "[SEP]" -> 3 [] OTHER -> 5

ConvertTokensToIds(toks) == [i \in 1..Len(toks) |-> TokenId(toks[i])]

\* ------------------------------------- SUMBTDataset.__init__: the encoder
\* `if example.text_b:` a text is true when it is not empty
HasTextB(text_b) == Len(text_b) > 0

\* the pair (tokens_a, tokens_b) after truncation; tokens_b stays None (<<>>
\* here) when there is no text_b
TruncatedTokens(text_a, text_b, msl) ==
  LET ta == ReplaceHash(Tokenize(text_a)) IN
    IF HasTextB(text_b)
      THEN TruncateSeqPair(ta, ReplaceHash(Tokenize(text_b)), msl - 3)
      ELSE <<IF Len(ta) > msl - 2 THEN SubSeq(ta, 1, msl - 2) ELSE ta, <<>>>>

AppendsWheneverTextB(text_b, tb) == HasTextB(text_b)

\* `if tokens_b:` None and the empty list are both false
AppendsTokensB(text_b, tb) == HasTextB(text_b) /\ Len(tb) > 0

\* lines 196-221: input_ids and input_len of one example
EncodeTurn(text_a, text_b, msl) ==
  LET pair == TruncatedTokens(text_a, text_b, msl)
      head == <<"[CLS]">> \o pair[1] \o <<"[SEP]">>
      with_b == AppendsTokensB(text_b, pair[2])
      tokens == IF with_b THEN head \o pair[2] \o <<"[SEP]">> ELSE head
  IN [input_ids |-> ConvertTokensToIds(tokens),
      input_len |-> <<Len(head), IF with_b THEN Len(pair[2]) + 1 ELSE 0>>]

\* ---------------------------------- SUMBTDataset.__init__: the label ids
\* label_map[i] is {label: i for i, label in enumerate(labels)}
LabelKnown(labels, label) == \E i \in 1..Len(labels) : labels[i] = label

\* the position counted from 1
LabelIdFromOne(labels, label) ==
  MaxOf({i \in 1..Len(labels) : labels[i] = label})

\* label_map[i][label]: the (last) position of label, counted from 0
LabelId(labels, label) ==
  MaxOf({i \in 1..Len(labels) : labels[i] = label}) - 1

\* int(x) for a column of the update flags
StrToInt(x) == CASE x = "0" -> 0 [] x = "1" -> 1

\* ------------------------------- SUMBTDataset.__init__: the dialogue loop
\* a guid "%s-%s-%s" % (set_type, dialogue, turn) is kept as its three parts,
\* which is what guid.split("-") gives
CurrDialogueIdx(guid) == SubSeq(guid, 1, Len(guid) - 1)

CurrTurnIdx(guid) == guid[Len(guid)]

FeatureGuid(guid) == SubSeq(guid, 2, Len(guid) - 1)

\* lines 188-193
MaxTurn(exs) == MaxOf({0} \cup {CurrTurnIdx(exs[i].guid) : i \in 1..Len(exs)})

EffectiveMaxTurnLength(exs, cap) == Min(MaxTurn(exs) + 1, cap)

\* line 238: the previous dialogue is over
ClosesDialogue(prev_d, curr_d) == prev_d # None /\ prev_d # curr_d

\* line 242: the example becomes a feature
KeepsTurn(prev_d, prev_t, curr_d, curr_t, mtl) == prev_d = None \/ prev_t < mtl

\* the InputFeatures of an example; src (the example's position in the input)
\* is history the model adds, the code keeps no turn index
MakeFeature(ex, n, msl, labels) ==
  LET enc == EncodeTurn(ex.text_a, ex.text_b, msl) IN
    [input_ids |-> enc.input_ids,
     input_len |-> enc.input_len,
     label_id |-> [i \in 1..Len(ex.label) |-> LabelId(labels[i], ex.label[i])],
     update |-> [i \in 1..Len(ex.update) |-> StrToInt(ex.update[i])],
     guid |-> FeatureGuid(ex.guid),
     src |-> n]

DataIdle ==
  /\ examples = <<>>
  /\ label_list = <<>>
  /\ max_seq_length = 0
  /\ cfg_max_turn_length = 0
  /\ max_turn_length = 0
  /\ ex_index = 0
  /\ features = <<>>
  /\ all_features = <<>>
  /\ prev_dialogue_idx = None
  /\ prev_turn_idx = -1
  /\ dpc = "idle"

\* lines 177-194: up to the main loop
DatasetScan ==
  /\ dpc = "new"
  /\ max_turn_length' = EffectiveMaxTurnLength(examples, cfg_max_turn_length)
  /\ all_features' = <<>>
  /\ features' = <<>>
  /\ prev_dialogue_idx' = None
  /\ dpc' = "loop"
  /\ UNCHANGED <<examples, label_list, max_seq_length, cfg_max_turn_length,
                 ex_index, prev_turn_idx>>
  /\ UNCHANGED <<truncVars, testVars, evalVars, restVars>>

\* lines 195-254: one example
DatasetLoopBody ==
  /\ dpc = "loop"
  /\ ex_index < Len(examples)
  /\ LET ex == examples[ex_index + 1]
         known == \A i \in 1..Len(ex.label) :
                    i <= Len(label_list) /\ LabelKnown(label_list[i], ex.label[i])
         curr_d == CurrDialogueIdx(ex.guid)
         curr_t == CurrTurnIdx(ex.guid)
         closes == ClosesDialogue(prev_dialogue_idx, curr_d)
         open == IF closes THEN <<>> ELSE features
     IN IF ~known
          THEN \* label_map[i][label] raises
               /\ dpc' = "error"
               /\ UNCHANGED <<ex_index, features, all_features,
                              prev_dialogue_idx, prev_turn_idx>>
          ELSE /\ all_features' =
                    IF closes THEN Append(all_features, features) ELSE all_features
               /\ features' =
                    IF KeepsTurn(prev_dialogue_idx, prev_turn_idx, curr_d, curr_t,
                                 max_turn_length)
                      THEN Append(open, MakeFeature(ex, ex_index + 1,
                                                    max_seq_length, label_list))
                      ELSE open
               /\ prev_dialogue_idx' = curr_d
               /\ prev_turn_idx' = curr_t
               /\ ex_index' = ex_index + 1
               /\ dpc' = "loop"
  /\ UNCHANGED <<examples, label_list, max_seq_length, cfg_max_turn_length,
                 max_turn_length>>
  /\ UNCHANGED <<truncVars, testVars, evalVars, restVars>>

\* line 256: the last dialogue
DatasetFinish ==
  /\ dpc = "loop"
  /\ ex_index = Len(examples)
  /\ all_features' = Append(all_features, features)
  /\ dpc' = "done"
  /\ UNCHANGED <<examples, label_list, max_seq_length, cfg_max_turn_length,
                 max_turn_length, ex_index, features, prev_dialogue_idx,
                 prev_turn_idx>>
  /\ UNCHANGED <<truncVars, testVars, evalVars, restVars>>

\* ------------------------------------------------------------- the inputs
\* the ontology: per slot, its name and its candidate values
SlotMeta == <<"area", "parking">>

Ontology == <<<<"none", "east", "west">>, <<"none", "yes">>>>

\* the turns a data file can hold: utterance, response, labels, update flags
TurnKinds ==
  { [text_a |-> <<"w">>, text_b |-> <<>>,
     label |-> <<"none", "none">>, update |-> <<"0", "0">>],
    [text_a |-> <<"w", " ", "w">>, text_b |-> <<"w">>,
     label |-> <<"east", "yes">>, update |-> <<"1", "1">>] }

\* the dialogue ids of a data file, in file order
DialogueIds == <<"a", "b">>

\* a dialogue of the file: the kinds of its turns 0, 1, ...
Dialogues == UNION {[1..k -> TurnKinds] : k \in 1..MaxTurns}

\* the examples of one dialogue, turn indices 0, 1, ... in order
DialogueExamples(d, turns) ==
  [t \in 1..Len(turns) |->
     [guid |-> <<"test", d, t - 1>>,
      text_a |-> turns[t].text_a, text_b |-> turns[t].text_b,
      label |-> turns[t].label, update |-> turns[t].update]]

RECURSIVE FileExamples(_)
\* the examples of a file sorted by dialogue then turn
FileExamples(file) ==
  IF file = <<>> THEN <<>>
  ELSE FileExamples(Pop(file)) \o DialogueExamples(DialogueIds[Len(file)], file[Len(file)])

\* SUMBTDataset(test_examples, label_list, tokenizer, max_seq_length,
\* max_turn_length) on a file sorted by dialogue then turn
InitData ==
  /\ \E file \in SeqUpTo(Dialogues, Len(DialogueIds)) : examples = FileExamples(file)
  /\ label_list = Ontology
  /\ max_seq_length = MaxSeqLength
  /\ cfg_max_turn_length \in 1..MaxCap
  /\ max_turn_length = cfg_max_turn_length
  /\ ex_index = 0
  /\ features = <<>>
  /\ all_features = <<>>
  /\ prev_dialogue_idx = None
  /\ prev_turn_idx = -1
  /\ dpc = "new"

\* ----------------------------------------------- SUMBTDataset.__getitem__
\* a tensor is a sequence of rows; size(0) is Len(m), size(1) is Len(m[1])
ZeroPad(row, n) == row \o [k \in 1..(n - Len(row)) |-> 0]

\* max([len(i) for i in input_ids]) raises ValueError on a dialogue without
\* features
GetItemRaises(d) == Len(d) = 0

GetItem(d) ==
  LET max_len == MaxOf({Len(d[t].input_ids) : t \in 1..Len(d)}) IN
    [input_ids |-> [t \in 1..Len(d) |-> ZeroPad(d[t].input_ids, max_len)],
     input_len |-> [t \in 1..Len(d) |-> d[t].input_len],
     label_ids |-> [t \in 1..Len(d) |-> d[t].label_id],
     update |-> [t \in 1..Len(d) |-> d[t].update],
     guids |-> [t \in 1..Len(d) |-> d[t].guid]]

\* ------------------------------------------------------------ collate_fn
\* lines 284-287: a len(seq) x rows x cols tensor of pad, each seq[i] copied
\* into its upper left corner
Padded(seq, pad, rows, cols) ==
  [i \in 1..Len(seq) |->
     [t \in 1..rows |->
        [d \in 1..cols |->
           IF t <= Len(seq[i]) /\ d <= Len(seq[i][1]) THEN seq[i][t][d] ELSE pad]]]

PaddingZeros(seq, pad) ==
  Padded(seq, 0, MaxOf({Len(seq[i]) : i \in 1..Len(seq)}),
         MaxOf({Len(seq[i][1]) : i \in 1..Len(seq)}))

PaddingDropsLastTurn(seq, pad) ==
  Padded([i \in 1..Len(seq) |-> Pop(seq[i])], pad,
         MaxOf({Len(seq[i]) : i \in 1..Len(seq)}),
         MaxOf({Len(seq[i][1]) : i \in 1..Len(seq)}))

\* lines 281-287
Padding(seq, pad) ==
  Padded(seq, pad, MaxOf({Len(seq[i]) : i \in 1..Len(seq)}),
         MaxOf({Len(seq[i][1]) : i \in 1..Len(seq)}))

\* lines 289-309: the batch of a non-empty list of __getitem__ results
Collate(its) ==
  [input_ids |-> Padding([i \in 1..Len(its) |-> its[i].input_ids], 0),
   input_len |-> Padding([i \in 1..Len(its) |-> its[i].input_len], 0),
   label_ids |-> Padding([i \in 1..Len(its) |-> its[i].label_ids], -1),
   update |-> Padding([i \in 1..Len(its) |-> its[i].update], -1),
   guids |-> [i \in 1..Len(its) |-> its[i].guids],
   num_turns |-> [i \in 1..Len(its) |-> Len(its[i].input_ids)]]

\* --------------------------------------------------------- the tracker
\* BeliefTracker is an external collaborator: with labels=None it maps
\* (input_ids, input_len) to pred_slot[B][T][S], an id of a candidate of each
\* slot for every turn of the rectangle, padded turns included.  weights picks
\* one such function.
Checkpoints == {0, 1, 2}

TrackerTurn(w, turn_len) ==
  [s \in 1..Len(Ontology) |-> (w + turn_len[1] + s) % Len(Ontology[s])]

Tracker(w, input_ids, input_len) ==
  [b \in 1..Len(input_ids) |->
     [t \in 1..Len(input_ids[b]) |-> TrackerTurn(w, input_len[b][t])]]

\* ------------------------------------------------- main: the test pass
\* test_dataloader: SequentialSampler, batch_size=4
TestBatchSize == 4

\* the dialogues of the next batch, as positions in all_features
BatchIndices(done, total) == (done + 1)..Min(done + TestBatchSize, total)

\* a tracker whose ids lie shift off what it declares
OffRange(ps, shift) ==
  [b \in 1..Len(ps) |->
     [t \in 1..Len(ps[b]) |-> [s \in 1..Len(ps[b][t]) |-> ps[b][t][s] + shift]]]

\* Python's list[p]: IndexError for p >= len or p < -len; a negative p
\* counts from the end
ListIndexRaises(list, p) == p >= Len(list) \/ p < 0 - Len(list)

ListIndex(list, p) == IF p >= 0 THEN list[p + 1] ELSE list[Len(list) + p + 1]

\* line 930 raises while dialogue i of the batch is decoded
DecodeRaises(b, ps, i) ==
  \E t \in 1..b.num_turns[i], s \in 1..Len(SlotMeta) :
    ListIndexRaises(Ontology[s], ps[i][t][s])

\* lines 928-933: the state of one turn, given its predicted ids
DecodeState(pred) ==
  LET value(s) == ListIndex(Ontology[s], pred[s])
      kept == SelectSeq([s \in 1..Len(SlotMeta) |-> s],
                        LAMBDA s : value(s) # "none")
  IN [k \in 1..Len(kept) |-> <<SlotMeta[kept[k]], value(kept[k])>>]

\* lines 922-935 for the dialogues 1..n of the batch, in order: each
\* predictions[f"{guid}-{tid}"] = state overwrites an earlier one
RECURSIVE DecodeBatch(_, _, _, _)
DecodeBatch(preds, b, ps, n) ==
  IF n = 0 THEN preds
  ELSE LET before == DecodeBatch(preds, b, ps, n - 1)
           guid == b.guids[n][1]
           num_turn == b.num_turns[n]
           keys == {<<guid, tid>> : tid \in 0..(num_turn - 1)}
       IN [k \in DOMAIN before \cup keys |->
             IF k \in keys THEN DecodeState(ps[n][k[2] + 1]) ELSE before[k]]

EmptyDict == [k \in {} |-> <<>>]

TestIdle ==
  /\ n_gpu = 0
  /\ weights = 0
  /\ id_shift = 0
  /\ next_index = 0
  /\ items = <<>>
  /\ batch = NoBatch
  /\ pred_slot = Unbound
  /\ predictions = EmptyDict
  /\ lpc = "idle"

InitTest ==
  /\ n_gpu \in 0..MaxGpus
  /\ weights \in Checkpoints
  /\ id_shift = 0
  /\ next_index = 0
  /\ items = <<>>
  /\ batch = NoBatch
  /\ pred_slot = Unbound
  /\ predictions = EmptyDict
  /\ lpc = "idle"

\* lines 905-907 (--do_train is store_false: by default the training block
\* is skipped and the loaders exist)
TestStart ==
  /\ dpc = "done"
  /\ lpc = "idle"
  /\ predictions' = EmptyDict
  /\ next_index' = 0
  /\ lpc' = "loop"
  /\ UNCHANGED <<n_gpu, weights, id_shift, items, batch, pred_slot>>
  /\ UNCHANGED <<truncVars, dataVars, evalVars, restVars>>

\* lines 908-935: one batch.  input_ids.dim() is 3 for every batch of
\* collate_fn, so lines 913-915 never run.
TestBatch ==
  /\ lpc = "loop"
  /\ next_index < Len(all_features)
  /\ LET idx == BatchIndices(next_index, Len(all_features))
         n == Cardinality(idx)
     IN IF \E i \in idx : GetItemRaises(all_features[i])
          THEN /\ lpc' = "error"
               /\ UNCHANGED <<next_index, items, batch, pred_slot, predictions>>
          ELSE LET its == [k \in 1..n |-> GetItem(all_features[next_index + k])]
                   b == Collate(its)
                   ps == IF n_gpu = 1
                           THEN OffRange(Tracker(weights, b.input_ids, b.input_len),
                                         id_shift)
                           ELSE pred_slot
                   raising == {i \in 1..n : DecodeRaises(b, ps, i)}
               IN /\ items' = its
                  /\ batch' = b
                  /\ pred_slot' = ps
                  /\ IF ps = Unbound
                       THEN \* line 925: NameError
                            /\ lpc' = "error"
                            /\ UNCHANGED <<next_index, predictions>>
                       ELSE IF raising # {}
                         THEN \* line 930: IndexError, after the dialogues
                              \* before it were written at line 935
                              /\ predictions' =
                                   DecodeBatch(predictions, b, ps,
                                               (CHOOSE i \in raising :
                                                  \A j \in raising : i <= j) - 1)
                              /\ lpc' = "error"
                              /\ UNCHANGED next_index
                         ELSE /\ predictions' = DecodeBatch(predictions, b, ps, n)
                              /\ next_index' = next_index + n
                              /\ lpc' = "loop"
  /\ UNCHANGED <<n_gpu, weights, id_shift>>
  /\ UNCHANGED <<truncVars, dataVars, evalVars, restVars>>

\* lines 936-938: json.dump(predictions, ...)
TestDump ==
  /\ lpc = "loop"
  /\ next_index = Len(all_features)
  /\ lpc' = "done"
  /\ UNCHANGED <<n_gpu, weights, id_shift, next_index, items, batch, pred_slot, predictions>>
  /\ UNCHANGED <<truncVars, dataVars, evalVars, restVars>>

\* ------------------------------------------- main: the evaluation pass
\* line 309: what collate_fn returns, element by element
BatchElementKinds == <<"tensor", "tensor", "tensor", "tensor", "list", "list">>

\* line 996, `t.to(device) for t in batch`: a list has no method `to`
MovesToDevice(kinds) == \A i \in 1..Len(kinds) : kinds[i] = "tensor"

\* line 997, `input_ids, input_len, label_ids, update = batch`
UnpacksIntoFour(kinds) == Len(kinds) = 4

\* lines 1-495: the names CHAN.py imports or defines at module level; line
\* 1021 calls eval_all_accs
ModuleNames ==
  {"csv", "os", "logging", "argparse", "random", "collections", "tqdm",
   "trange", "json", "pdb", "BeliefTracker", "np", "torch", "TensorDataset",
   "DataLoader", "RandomSampler", "SequentialSampler", "Dataset",
   "DistributedSampler", "BertTokenizer", "AdamW",
   "get_linear_schedule_with_warmup",
   "get_cosine_with_hard_restarts_schedule_with_warmup", "set_seed", "get_lr",
   "InputExample", "InputFeatures", "DataProcessor", "Processor",
   "SUMBTDataset", "collate_fn", "convert_examples_to_features",
   "get_label_embedding", "_truncate_seq_pair", "warmup_linear", "main"}

\* line 1023: the turns of the batch whose first label id is not -1
ValidTurns(b) ==
  {<<i, t>> \in (1..Len(b.label_ids)) \X (1..Len(b.label_ids[1])) :
     b.label_ids[i][t][1] # -1}

\* acc * nb_eval_ex, acc being the tracker's joint accuracy over the valid
\* turns of the batch: the valid turns whose every slot is predicted right
CorrectTurns(b, ps) ==
  Cardinality({p \in ValidTurns(b) : ps[p[1]][p[2]] = b.label_ids[p[1]][p[2]]})

\* lines 982-993: the counts of the second report (the slot-accuracy
\* counts are left out)
ZeroAccuracies == [joint7 |-> 0, joint5 |-> 0, joint_rest |-> 0, num_turn |-> 0]

\* the slot subsets of the second report: all domains, five domains, the
\* restaurant domain
SlotSubsets ==
  [joint7 |-> 1..Len(SlotMeta), joint5 |-> {1}, joint_rest |-> {Len(SlotMeta)}]

\* the valid turns of the batch that are right in every slot of the subset
JointCorrect(b, ps, subset) ==
  Cardinality({p \in ValidTurns(b) :
                 \A s \in subset : ps[p[1]][p[2]][s] = b.label_ids[p[1]][p[2]][s]})

\* line 1021, accuracies = eval_all_accs(pred_slot, label_ids, accuracies)
EvalAllAccs(ps, b, accs) ==
  [joint7 |-> accs.joint7 + JointCorrect(b, ps, SlotSubsets.joint7),
   joint5 |-> accs.joint5 + JointCorrect(b, ps, SlotSubsets.joint5),
   joint_rest |-> accs.joint_rest + JointCorrect(b, ps, SlotSubsets.joint_rest),
   num_turn |-> accs.num_turn + Cardinality(ValidTurns(b))]

\* nothing written yet
NoReport == <<>>

\* lines 1084-1093: each joint count over accuracies["num_turn"], a ratio
\* kept as <<numerator, denominator>>
JointReport(accs) ==
  [joint7 |-> <<accs.joint7, accs.num_turn>>,
   joint5 |-> <<accs.joint5, accs.num_turn>>,
   joint_rest |-> <<accs.joint_rest, accs.num_turn>>]

EvalIdle ==
  /\ eval_batch_size = 0
  /\ eval_index = 0
  /\ nb_eval_examples = 0
  /\ eval_accuracy = 0
  /\ accuracies = ZeroAccuracies
  /\ joint_report = NoReport
  /\ epc = "idle"

\* lines 943-993: eval_dataset is SUMBTDataset on the test examples again,
\* the same all_features; the accumulators start at 0
EvalStart ==
  /\ lpc = "done"
  /\ epc = "idle"
  /\ eval_batch_size' \in 1..MaxBatchSize
  /\ eval_index' = 0
  /\ nb_eval_examples' = 0
  /\ eval_accuracy' = 0
  /\ accuracies' = ZeroAccuracies
  /\ joint_report' = NoReport
  /\ epc' = "loop"
  /\ UNCHANGED <<truncVars, dataVars, testVars, restVars>>

\* lines 995-1093: the next batch of the loop, or the divisions and the
\* reports after it
EvalStep ==
  /\ epc = "loop"
  /\ IF eval_index < Len(all_features)
       THEN LET last == Min(eval_index + eval_batch_size, Len(all_features))
                n == last - eval_index
            IN IF \/ \E i \in (eval_index + 1)..last : GetItemRaises(all_features[i])
                  \/ ~MovesToDevice(BatchElementKinds)
                  \/ ~UnpacksIntoFour(BatchElementKinds)
                  \/ "eval_all_accs" \notin ModuleNames
                 THEN \* ValueError, AttributeError, ValueError, NameError
                      /\ epc' = "error"
                      /\ UNCHANGED <<eval_index, nb_eval_examples, eval_accuracy,
                                     accuracies, joint_report>>
                 ELSE LET b == Collate([k \in 1..n |->
                                          GetItem(all_features[eval_index + k])])
                          ps == Tracker(weights, b.input_ids, b.input_len)
                      IN /\ nb_eval_examples' =
                              nb_eval_examples + Cardinality(ValidTurns(b))
                         /\ eval_accuracy' = eval_accuracy + CorrectTurns(b, ps)
                         /\ accuracies' = EvalAllAccs(ps, b, accuracies)
                         /\ eval_index' = last
                         /\ epc' = "loop"
                         /\ UNCHANGED joint_report
       ELSE \* lines 1042-1044 divide by nb_eval_examples, lines 1084-1093
            \* by accuracies["num_turn"]: ZeroDivisionError on 0
            /\ epc' = IF nb_eval_examples = 0 \/ accuracies.num_turn = 0
                        THEN "error" ELSE "reported"
            /\ joint_report' = IF epc' = "reported" THEN JointReport(accuracies)
                                                     ELSE NoReport
            /\ UNCHANGED <<eval_index, nb_eval_examples, eval_accuracy, accuracies>>
  /\ UNCHANGED eval_batch_size
  /\ UNCHANGED <<truncVars, dataVars, testVars, restVars>>

\* ------------------------------------------ Processor._create_examples
\* a row is the list of its fields: line[0] dialogue index, line[1] turn
\* index, line[2] user utterance, line[3] system response, then one label
\* and one update flag per slot; Python's line[k] is line[k + 1] here
NSlots == Len(SlotMeta)

\* Python's None for prev_dialogue_index (no dialogue index is "None")
NoIndex == "None"

\* the " # " that joins a turn to the turns before it
Separator == <<" ", "#", " ">>

\* lines 141-166: the field positions one loop iteration reads
FieldsRead ==
  {0, 1, 2, 3} \cup {4 + idx : idx \in 0..(NSlots - 1)}
               \cup {4 + NSlots + idx : idx \in 0..(NSlots - 1)}

\* line[k] raises IndexError for k >= len(line)
RowRaises(line) == \E k \in FieldsRead : k >= Len(line)

\* lines 139-171 hold no try/except: the IndexError leaves the call
OnIndexErrorSkipsRow == "loop"

OnIndexError == "error"

\* line 148: the row starts a dialogue
StartsOnlyFirstDialogue(prev, curr) == prev = NoIndex

StartsDialogue(prev, curr) == prev = NoIndex \/ prev # curr

\* lines 147-158: text_a or text_b of the row, acc being the local so far
RowText(accum, starts, field, acc) ==
  IF accum /\ ~starts THEN field \o Separator \o acc ELSE field

\* lines 141-169: the InputExample of a row
RowExample(set_type, line, ta, tb) ==
  [guid |-> <<set_type, line[1], line[2]>>,
   text_a |-> ta,
   text_b |-> tb,
   label |-> [idx \in 1..NSlots |-> line[4 + idx]],
   update |-> [idx \in 1..NSlots |-> line[4 + NSlots + idx]]]

CreateIdle ==
  /\ lines = <<>>
  /\ accumulation = FALSE
  /\ line_index = 0
  /\ prev_dialogue_index = NoIndex
  /\ acc_text_a = <<>>
  /\ acc_text_b = <<>>
  /\ created = <<>>
  /\ cpc = "idle"

\* lines 143-170: one row
CreateRow ==
  /\ cpc = "loop"
  /\ line_index < Len(lines)
  /\ LET line == lines[line_index + 1] IN
       IF RowRaises(line)
         THEN /\ cpc' = OnIndexError
              /\ line_index' = line_index + 1
              /\ UNCHANGED <<prev_dialogue_index, acc_text_a, acc_text_b, created>>
         ELSE LET starts == StartsDialogue(prev_dialogue_index, line[1])
                  ta == RowText(accumulation, starts, line[3], acc_text_a)
                  tb == RowText(accumulation, starts, line[4], acc_text_b)
              IN /\ acc_text_a' = ta
                 /\ acc_text_b' = tb
                 /\ prev_dialogue_index' =
                      IF accumulation THEN line[1] ELSE prev_dialogue_index
                 /\ created' = Append(created, RowExample("test", line, ta, tb))
                 /\ line_index' = line_index + 1
                 /\ cpc' = "loop"
  /\ UNCHANGED <<lines, accumulation>>
  /\ UNCHANGED <<truncVars, dataVars, testVars, evalVars, trainVars>>

\* line 171: return examples
CreateReturn ==
  /\ cpc = "loop"
  /\ line_index = Len(lines)
  /\ cpc' = "done"
  /\ UNCHANGED <<lines, accumulation, line_index, prev_dialogue_index,
                 acc_text_a, acc_text_b, created>>
  /\ UNCHANGED <<truncVars, dataVars, testVars, evalVars, trainVars>>

\* the rows of a tsv file: well-formed rows of 4 + 2 * NSlots fields, and
\* rows cut short
FullRows ==
  {<<d, t, x[1], x[2], "east", "yes", "1", "0">> :
     d \in {DialogueIds[i] : i \in 1..Len(DialogueIds)}, t \in {0, 1},
     x \in {<<<<"w">>, <<>>>>, <<<<"w", " ", "w">>, <<"w">>>>}}

ShortRows ==
  {SubSeq(<<"a", 0, <<"w">>, <<"w">>, "east", "yes", "1", "0">>, 1, k) :
     k \in {3, 4 + NSlots, 3 + 2 * NSlots}}


\* ------------------------------------------- main: the training block
\* Python's None for last_update and for best_acc / best_loss (epochs and
\* metrics are never negative)
NoEpoch == 0 - 1

NoMetric == 0 - 1

\* the dev accuracy and the tracked dev loss term of an epoch, as counts
Metrics == [acc : 0..1, loss : 0..1]

\* line 622: train_dataloader and dev_dataloader are built `if args.do_train`
LoadersBuilt(flag) == flag

\* line 757: the training loop runs `if not args.do_train`
LoopRuns(flag) == ~flag

\* lines 880-881 and 899-900: `if args.do_train: torch.save(...)`
Saves(flag) == flag

\* line 875
AccImproved(last, acc, best) == last = NoEpoch \/ acc > best

\* line 883
LossImproved(last, loss, best) == last = NoEpoch \/ loss < best

TrainIdle ==
  /\ do_train = TRUE
  /\ num_train_epochs = 0
  /\ patience = 0
  /\ dev_metrics = <<>>
  /\ epoch = 0
  /\ last_update = NoEpoch
  /\ best_acc = NoMetric
  /\ best_loss = NoMetric
  /\ acc_checkpoint = NoEpoch
  /\ rpc = "idle"

\* lines 757-763
TrainEnter ==
  /\ rpc = "start"
  /\ rpc' = IF LoopRuns(do_train) THEN "loop" ELSE "skipped"
  /\ epoch' = 0
  /\ last_update' = NoEpoch
  /\ best_acc' = NoMetric
  /\ best_loss' = NoMetric
  /\ UNCHANGED <<do_train, num_train_epochs, patience, dev_metrics, acc_checkpoint>>
  /\ UNCHANGED <<truncVars, dataVars, testVars, evalVars, createVars>>

\* lines 764-904: one epoch, or the end of range(num_train_epochs)
TrainEpoch ==
  /\ rpc = "loop"
  /\ IF epoch >= num_train_epochs
       THEN /\ rpc' = "done"
            /\ UNCHANGED <<epoch, last_update, best_acc, best_loss, acc_checkpoint>>
       ELSE IF ~LoadersBuilt(do_train)
         THEN \* line 770: train_dataloader is unbound
              /\ rpc' = "error"
              /\ UNCHANGED <<epoch, last_update, best_acc, best_loss, acc_checkpoint>>
         ELSE LET m == dev_metrics[epoch + 1]
                  acc_up == AccImproved(last_update, m.acc, best_acc)
                  loss_up == LossImproved(last_update, m.loss, best_loss)
                  update == IF loss_up THEN epoch ELSE last_update
              IN /\ acc_checkpoint' =
                      IF acc_up /\ Saves(do_train) THEN epoch ELSE acc_checkpoint
                 /\ best_acc' = IF acc_up THEN m.acc ELSE best_acc
                 /\ best_loss' = IF loss_up THEN m.loss ELSE best_loss
                 /\ last_update' = update
                 /\ epoch' = epoch + 1
                 /\ rpc' = IF update + patience <= epoch THEN "done" ELSE "loop"
  /\ UNCHANGED <<do_train, num_train_epochs, patience, dev_metrics>>
  /\ UNCHANGED <<truncVars, dataVars, testVars, evalVars, createVars>>

\* the parts not called
RestIdle == CreateIdle /\ TrainIdle

\* main() at the training block, with or without --do_train
InitTrain ==
  /\ TruncIdle
  /\ DataIdle
  /\ TestIdle
  /\ EvalIdle
  /\ CreateIdle
  /\ do_train \in BOOLEAN
  /\ num_train_epochs \in 0..MaxEpochs
  /\ patience \in 0..MaxPatience
  /\ dev_metrics \in [1..MaxEpochs -> Metrics]
  /\ epoch = 0
  /\ last_update = NoEpoch
  /\ best_acc = NoMetric
  /\ best_loss = NoMetric
  /\ acc_checkpoint = NoEpoch
  /\ rpc = "start"

\* sequential code: an enabled step is taken
NextTrain == TrainEnter \/ TrainEpoch

SpecTrain == InitTrain /\ [][NextTrain]_vars /\ WF_vars(NextTrain)

\* a call processor.get_test_examples(data_dir, accumulation) on its own
InitCreate ==
  /\ TruncIdle
  /\ DataIdle
  /\ TestIdle
  /\ EvalIdle
  /\ TrainIdle
  /\ lines \in SeqUpTo(FullRows \cup ShortRows, MaxRows)
  /\ accumulation \in BOOLEAN
  /\ line_index = 0
  /\ prev_dialogue_index = NoIndex
  /\ acc_text_a = <<>>
  /\ acc_text_b = <<>>
  /\ created = <<>>
  /\ cpc = "loop"

\* the loop is sequential code, so an enabled step is taken
NextCreate == CreateRow \/ CreateReturn

SpecCreate == InitCreate /\ [][NextCreate]_vars /\ WF_vars(NextCreate)

\* main() up to the test pass: the device count, the checkpoint, and
\* test_dataset = SUMBTDataset(test_examples, ...) about to be built
Init == TruncIdle /\ InitData /\ InitTest /\ EvalIdle /\ RestIdle

Next ==
  \/ DatasetScan
  \/ DatasetLoopBody
  \/ DatasetFinish
  \/ TestStart
  \/ TestBatch
  \/ TestDump
  \/ EvalStart
  \/ EvalStep

Spec == Init /\ [][Next]_vars

\* the same program on a file of one turn, over every utterance and response
\* of up to MaxWords chunks and every max_seq_length >= 3
InitEncode ==
  /\ TruncIdle
  /\ \E ta \in SeqUpTo(Words, MaxWords), tb \in SeqUpTo(Words, MaxWords) :
        examples = <<[guid |-> <<"test", DialogueIds[1], 0>>,
                      text_a |-> ta, text_b |-> tb,
                      label |-> <<"east", "none">>, update |-> <<"1", "0">>]>>
  /\ label_list = Ontology
  /\ max_seq_length \in 3..MaxSeqLength
  /\ cfg_max_turn_length = 1
  /\ max_turn_length = cfg_max_turn_length
  /\ ex_index = 0
  /\ features = <<>>
  /\ all_features = <<>>
  /\ prev_dialogue_idx = None
  /\ prev_turn_idx = -1
  /\ dpc = "new"
  /\ n_gpu = 1
  /\ weights = 0
  /\ id_shift = 0
  /\ next_index = 0
  /\ items = <<>>
  /\ batch = NoBatch
  /\ pred_slot = Unbound
  /\ predictions = EmptyDict
  /\ lpc = "idle"
  /\ EvalIdle
  /\ RestIdle

SpecEncode == InitEncode /\ [][Next]_vars

\* the same program with a tracker whose ids may lie off its declared range
InitDecode ==
  /\ TruncIdle
  /\ InitData
  /\ EvalIdle
  /\ RestIdle
  /\ n_gpu = 1
  /\ weights = 0
  /\ id_shift \in (0 - MaxShift)..MaxShift
  /\ next_index = 0
  /\ items = <<>>
  /\ batch = NoBatch
  /\ pred_slot = Unbound
  /\ predictions = EmptyDict
  /\ lpc = "idle"

SpecDecode == InitDecode /\ [][Next]_vars

\* examples as any caller may hand them to SUMBTDataset: dialogue ids and
\* turn indices in any order, labels inside or outside the candidate lists
AnyExamples ==
  {[guid |-> <<"test", d, t>>, text_a |-> <<"w">>, text_b |-> <<"w">>,
    label |-> <<area, "yes">>, update |-> <<"1", "0">>] :
     d \in {DialogueIds[i] : i \in 1..Len(DialogueIds)}, t \in {0, 1},
     area \in {"west", "north"}}

\* the same program on such a list
InitAny ==
  /\ TruncIdle
  /\ EvalIdle
  /\ RestIdle
  /\ examples \in SeqUpTo(AnyExamples, MaxExamples)
  /\ label_list = Ontology
  /\ max_seq_length = MaxSeqLength
  /\ cfg_max_turn_length \in 1..MaxCap
  /\ max_turn_length = cfg_max_turn_length
  /\ ex_index = 0
  /\ features = <<>>
  /\ all_features = <<>>
  /\ prev_dialogue_idx = None
  /\ prev_turn_idx = -1
  /\ dpc = "new"
  /\ n_gpu = 1
  /\ weights = 0
  /\ id_shift = 0
  /\ next_index = 0
  /\ items = <<>>
  /\ batch = NoBatch
  /\ pred_slot = Unbound
  /\ predictions = EmptyDict
  /\ lpc = "idle"

SpecAny == InitAny /\ [][Next]_vars

\* a call _truncate_seq_pair(tokens_a, tokens_b, max_length) with max_length >= 0
InitTrunc ==
  /\ DataIdle
  /\ TestIdle
  /\ EvalIdle
  /\ RestIdle
  /\ tokens_a \in SeqUpTo(Tokens, MaxTokens)
  /\ tokens_b \in SeqUpTo(Tokens, MaxTokens)
  /\ max_length \in 0..MaxBudget
  /\ arg_a = tokens_a
  /\ arg_b = tokens_b
  /\ tpc = "loop"

\* a call of _truncate_seq_pair on its own, one loop iteration per step; the
\* loop is sequential code, so an enabled iteration is taken
NextTrunc == TruncBreak \/ TruncStep

SpecTrunc == InitTrunc /\ [][NextTrunc]_vars /\ WF_vars(NextTrunc)

\* =================================================================
\* The claims
\* =================================================================
\* the example a feature was made from, and that example's turn index
ExampleOf(f) == examples[f.src]

TurnIndexOf(f) == CurrTurnIdx(ExampleOf(f).guid)

\* out[i] is rows x cols, holds ins[i] in its upper left corner and pad
\* everywhere else
PaddedAround(out, ins, pad, rows, cols) ==
  /\ Len(out) = Len(ins)
  /\ \A i \in 1..Len(ins) :
       /\ Len(out[i]) = rows
       /\ \A t \in 1..rows :
            /\ Len(out[i][t]) = cols
            /\ \A d \in 1..cols :
                 out[i][t][d] =
                   IF t <= Len(ins[i]) /\ d <= Len(ins[i][t]) THEN ins[i][t][d] ELSE pad

FieldOf(its, name) == [i \in 1..Len(its) |-> its[i][name]]

\* ------------------------------------------------------------------ C1
\* C1: for a non-empty list of per-dialogue items, collate_fn returns, with
\* T = max T_i and L = max L_i, tensors in which region [i, :T_i, :width_i] of
\* input_ids, input_len, label_ids and update is the dialogue's own tensor and
\* every other position is the padding sentinel: 0 for input_ids and
\* input_len, -1 for label_ids and update.
PaddingRoundTrip ==
  Len(items) > 0 =>
    LET T == MaxOf({Len(items[i].input_ids) : i \in 1..Len(items)})
        L == MaxOf({Len(items[i].input_ids[1]) : i \in 1..Len(items)})
    IN /\ PaddedAround(batch.input_ids, FieldOf(items, "input_ids"), 0, T, L)
       /\ PaddedAround(batch.input_len, FieldOf(items, "input_len"), 0, T, 2)
       /\ PaddedAround(batch.label_ids, FieldOf(items, "label_ids"), -1, T,
                       Len(label_list))
       /\ PaddedAround(batch.update, FieldOf(items, "update"), -1, T,
                       Len(label_list))

\* a batch of two dialogues that differ in turn count and in token width
PaddingWitness ==
  /\ Len(items) = 2
  /\ Len(items[1].input_ids) # Len(items[2].input_ids)
  /\ Len(items[1].input_ids[1]) # Len(items[2].input_ids[1])
  /\ batch.num_turns = <<Len(items[1].input_ids), Len(items[2].input_ids)>>

\* ------------------------------------------------------------------ C2
\* C2: in every batch of collate_fn made from dialogues of SUMBTDataset, for
\* every position (b, t): t < num_turns[b] iff label_ids[b, t, 0] != -1, where
\* num_turns[b] is the dialogue's turn count before padding.
TurnValidity ==
  Len(items) > 0 =>
    \A b \in 1..Len(batch.label_ids) :
      /\ batch.num_turns[b] = Len(items[b].label_ids)
      /\ \A t \in 1..Len(batch.label_ids[b]) :
           (t - 1 < batch.num_turns[b]) <=> (batch.label_ids[b][t][1] # -1)

\* a batch with a padded turn, and a real turn whose first label id is 0
TurnValidityWitness ==
  /\ Len(items) = 2
  /\ batch.num_turns[1] < batch.num_turns[2]
  /\ batch.label_ids[1][1][1] = 0
  /\ batch.label_ids[1][Len(batch.label_ids[1])][1] = -1

\* ------------------------------------------------------------------ C3
\* C3: after construction with a configured max_turn_length, every emitted
\* dialogue holds only turns with turn_index < max_turn_length, so no
\* dialogue holds more than max_turn_length turns (input sorted by dialogue
\* then turn).
TurnsBelowCap ==
  dpc = "done" =>
    \A i \in 1..Len(all_features) :
      /\ Len(all_features[i]) <= cfg_max_turn_length
      /\ \A k \in 1..Len(all_features[i]) :
           TurnIndexOf(all_features[i][k]) < cfg_max_turn_length

\* ------------------------------------------------------------------ C4
\* C4: for an input sorted by dialogue then turn with turn indices 0, 1, 2,
\* ... in each dialogue, the k-th retained feature of every emitted dialogue
\* is the turn with index k, whatever dialogues precede it and whatever the
\* cap.
RetainedTurnsContiguous ==
  dpc = "done" =>
    \A i \in 1..Len(all_features) :
      \A k \in 1..Len(all_features[i]) :
        TurnIndexOf(all_features[i][k]) = k - 1

\* ------------------------------------------------------------------ C5
\* C5: for lists of lengths a and b and a budget m >= 0 the call terminates
\* with len(tokens_a) + len(tokens_b) = min(a + b, m), each kept list a prefix
\* of the original, and no step pops the list that is strictly shorter.
TruncResultOK ==
  tpc = "done" =>
    /\ Len(tokens_a) + Len(tokens_b) = Min(Len(arg_a) + Len(arg_b), max_length)
    /\ IsPrefix(tokens_a, arg_a)
    /\ IsPrefix(tokens_b, arg_b)

TruncNeverPopsShorter ==
  /\ Len(tokens_a') < Len(tokens_a) => Len(tokens_a) >= Len(tokens_b)
  /\ Len(tokens_b') < Len(tokens_b) => Len(tokens_b) >= Len(tokens_a)

TruncationCorrect ==
  /\ [](TruncResultOK /\ (tpc = "loop" => IsPrefix(tokens_a, arg_a) /\ IsPrefix(tokens_b, arg_b)))
  /\ [][TruncNeverPopsShorter]_vars
  /\ <>(tpc = "done")

\* a call that had to truncate both lists has returned
TruncationWitness ==
  /\ tpc = "done"
  /\ Len(tokens_a) < Len(arg_a)
  /\ Len(tokens_b) < Len(arg_b)
  /\ Len(tokens_a) + Len(tokens_b) > 0

\* ------------------------------------------------------------------ C6
\* C6 as stated: when the total is over budget and the lists have equal
\* length, the token removed is taken from tokens_a.
TieRemovesFromA ==
  [][(tpc = "loop" /\ ~TruncFits(tokens_a, tokens_b, max_length)
        /\ Len(tokens_a) = Len(tokens_b))
       => (tokens_a' = Pop(tokens_a) /\ tokens_b' = tokens_b)]_vars

\* C6 amended: when the total is over budget and the lists have equal length,
\* the token removed is taken from tokens_b and tokens_a is left alone.
TieRemovesFromB ==
  [][(tpc = "loop" /\ ~TruncFits(tokens_a, tokens_b, max_length)
        /\ Len(tokens_a) = Len(tokens_b))
       => (tokens_b' = Pop(tokens_b) /\ tokens_a' = tokens_a)]_vars

\* a call that started with a tie over budget has popped once
TieWitness ==
  /\ Len(arg_a) = Len(arg_b)
  /\ Len(arg_a) + Len(arg_b) > max_length
  /\ Len(tokens_a) + Len(tokens_b) = Len(arg_a) + Len(arg_b) - 1

\* ------------------------------------------------------------------ C7
\* the features made so far
MadeFeatures ==
  {features[k] : k \in 1..Len(features)}
    \cup UNION {{all_features[i][k] : k \in 1..Len(all_features[i])} :
                  i \in 1..Len(all_features)}

\* [CLS] + tokens_a + [SEP] with segment_lengths (len(tokens_a) + 2, 0)
SingleForm(f, ta) ==
  /\ f.input_ids = ConvertTokensToIds(<<"[CLS]">> \o ta \o <<"[SEP]">>)
  /\ f.input_len = <<Len(ta) + 2, 0>>

\* [CLS] + tokens_a + [SEP] + tokens_b + [SEP] with segment_lengths
\* (len(tokens_a) + 2, len(tokens_b) + 1)
PairForm(f, ta, tb) ==
  /\ f.input_ids =
       ConvertTokensToIds(<<"[CLS]">> \o ta \o <<"[SEP]">> \o tb \o <<"[SEP]">>)
  /\ f.input_len = <<Len(ta) + 2, Len(tb) + 1>>

\* tokens_a and tokens_b are prefixes of the texts' token lists, and the
\* lengths add up and fit
EncodingFits(f, ta, tb) ==
  /\ IsPrefix(ta, ReplaceHash(Tokenize(ExampleOf(f).text_a)))
  /\ IsPrefix(tb, ReplaceHash(Tokenize(ExampleOf(f).text_b)))
  /\ Len(f.input_ids) = f.input_len[1] + f.input_len[2]
  /\ Len(f.input_ids) <= max_seq_length

\* C7 as stated: with max_seq_length >= 3, a turn with text_b present is
\* [CLS] + tokens_a + [SEP] + tokens_b + [SEP] with segment_lengths
\* (len(tokens_a) + 2, len(tokens_b) + 1), also when tokens_b is empty; one
\* without is [CLS] + tokens_a + [SEP] with (len(tokens_a) + 2, 0); the
\* lengths add up to len(token_ids) <= max_seq_length.
EncodingAsStated ==
  \A f \in MadeFeatures :
    LET pair == TruncatedTokens(ExampleOf(f).text_a, ExampleOf(f).text_b,
                                max_seq_length)
    IN /\ IF Len(ExampleOf(f).text_b) > 0
            THEN PairForm(f, pair[1], pair[2])
            ELSE SingleForm(f, pair[1])
       /\ EncodingFits(f, pair[1], pair[2])

\* C7 amended: with max_seq_length >= 3, a turn whose text_b is present and
\* whose tokens_b is not empty after tokenization and truncation is [CLS] +
\* tokens_a + [SEP] + tokens_b + [SEP] with segment_lengths (len(tokens_a) +
\* 2, len(tokens_b) + 1); every other turn (no text_b, or tokens_b empty) is
\* [CLS] + tokens_a + [SEP] with (len(tokens_a) + 2, 0); the lengths add up
\* to len(token_ids) <= max_seq_length.
EncodingAmended ==
  \A f \in MadeFeatures :
    LET pair == TruncatedTokens(ExampleOf(f).text_a, ExampleOf(f).text_b,
                                max_seq_length)
    IN /\ IF Len(ExampleOf(f).text_b) > 0 /\ Len(pair[2]) > 0
            THEN PairForm(f, pair[1], pair[2])
            ELSE SingleForm(f, pair[1])
       /\ EncodingFits(f, pair[1], pair[2])

\* a turn whose response is not empty and has no token left, encoded next to
\* nothing; and the dataset is built
EncodingWitness ==
  /\ dpc = "done"
  /\ \E f \in MadeFeatures :
       /\ Len(ExampleOf(f).text_b) > 0
       /\ f.input_len[2] = 0
       /\ Len(Tokenize(ExampleOf(f).text_b)) > 0

\* ------------------------------------------------------------------ C8
\* the retained turns of the dataset, and those the tracker gets right in
\* every slot
AllTurns ==
  UNION {{all_features[i][k] : k \in 1..Len(all_features[i])} :
           i \in 1..Len(all_features)}

RightTurns == {f \in AllTurns : TrackerTurn(weights, f.input_len) = f.label_id}

\* C8: the accuracy an evaluation pass reports is (the sum over the valid
\* turns of the per-turn correctness) / (the count of valid turns), whatever
\* the batch size; padded turns do not count.
ReportsTurnWeightedAccuracy ==
  epc \in {"reported", "error"} =>
    /\ epc = "reported"
    /\ nb_eval_examples = Cardinality(AllTurns)
    /\ eval_accuracy = Cardinality(RightTurns)

\* ------------------------------------------------------------------ C9
\* the slots whose predicted value is not "none", in slot order, as
\* "{slot}-{value}"
StateAsClaimed(st, pred) ==
  LET said == {s \in 1..Len(SlotMeta) : Ontology[s][pred[s] + 1] # "none"} IN
    /\ Len(st) = Cardinality(said)
    /\ \A s \in said : \E j \in 1..Len(st) : st[j] = <<SlotMeta[s], Ontology[s][pred[s] + 1]>>
    /\ \A j \in 1..Len(st) : \A s, r \in said :
         (j < Len(st) /\ st[j][1] = SlotMeta[s] /\ st[j + 1][1] = SlotMeta[r]) => s < r

\* C9: after the test pass the predictions hold exactly one entry for every
\* retained turn of every test dialogue, keyed "{dialogue_id}-{turn_index}"
\* with the turn's own turn_index, listing in slot order "{slot}-{value}" for
\* the slots whose decoded value is not "none".
PredictionsKeyedByTurn ==
  lpc = "done" =>
    /\ DOMAIN predictions = {<<f.guid, TurnIndexOf(f)>> : f \in AllTurns}
    /\ \A f \in AllTurns :
         StateAsClaimed(predictions[<<f.guid, TurnIndexOf(f)>>],
                        TrackerTurn(weights, f.input_len))

\* ------------------------------------------------------------------ C10
\* the examples that start a maximal run of one dialogue id
RunStarts ==
  {n \in 1..Len(examples) :
     n = 1 \/ CurrDialogueIdx(examples[n].guid) # CurrDialogueIdx(examples[n - 1].guid)}

RunOf(n) == Cardinality({m \in RunStarts : m <= n})

\* C10: for any feature sequence the dataset holds exactly one dialogue per
\* maximal contiguous run of one dialogue id, in input order, and each
\* dialogue holds only features of its own run, in input order.
OneDialoguePerRun ==
  dpc = "done" =>
    /\ Len(all_features) = Cardinality(RunStarts)
    /\ \A i \in 1..Len(all_features) : \A k \in 1..Len(all_features[i]) :
         /\ RunOf(all_features[i][k].src) = i
         /\ k > 1 => all_features[i][k - 1].src < all_features[i][k].src

\* ------------------------------------------------------------------ C11
\* the first row of the maximal run of one dialogue index that row n is in
RowRunStart(n) ==
  MaxOf({m \in 1..n : m = 1 \/ lines[m][1] # lines[m - 1][1]})

\* column col of the rows n, n - 1, ..., first, joined by the separator
RECURSIVE JoinBack(_, _, _)
JoinBack(n, first, col) ==
  IF n = first THEN lines[n][col]
  ELSE lines[n][col] \o Separator \o JoinBack(n - 1, first, col)

HasShortRow == \E n \in 1..Len(lines) : Len(lines[n]) < 4 + 2 * NSlots

\* C14: if any row has fewer than 4 + 2 * S fields, the call ends in an
\* error and never returns an example list, however many well-formed rows
\* come before the short one.
ShortRowFails ==
  /\ [](HasShortRow => cpc # "done")
  /\ (HasShortRow ~> cpc = "error")

\* the call failed on a third row one field short, after two good rows
ShortRowWitness ==
  /\ cpc = "error"
  /\ Len(created) = 2
  /\ Len(lines) = 3
  /\ Len(lines[3]) = 3 + 2 * NSlots

\* ------------------------------------------------------------------ C12
\* an id the last batch decoded (a real turn's) lies outside its slot's range
DecodedOffRange ==
  \E i \in 1..Len(pred_slot) :
    \E t \in 1..batch.num_turns[i], s \in 1..Len(SlotMeta) :
      pred_slot[i][t][s] \notin 0..(Len(Ontology[s]) - 1)

\* C12: in the test pass a predicted id outside 0..len(candidates)-1,
\* negative ids included, ends the pass with a fatal error; no such id is
\* mapped to a candidate value and written to the predictions.
OffRangeIdIsFatal ==
  (pred_slot # Unbound /\ DecodedOffRange) =>
    /\ lpc = "error"
    /\ \A i \in 1..Len(pred_slot) :
         DecodeRaises(batch, pred_slot, i) =>
           \A t \in 0..(batch.num_turns[i] - 1) :
             <<batch.guids[i][1], t>> \notin DOMAIN predictions

\* ------------------------------------------------------------------ C16
\* a ratio <<n, d>> is at most a ratio <<m, d>> over the same count
AtMost(x, y) == x[2] = y[2] /\ x[2] > 0 /\ x[1] <= y[1]

\* C16: the evaluation reports the joint accuracy over the full slot set and
\* over each slot subset, all divided by the same count of valid turns, and
\* the one over the full set is at most the one over any subset.
JointReportOrdered ==
  epc \in {"reported", "error"} =>
    /\ joint_report # NoReport
    /\ joint_report.joint7[2] = Cardinality(AllTurns)
    /\ AtMost(joint_report.joint7, joint_report.joint5)
    /\ AtMost(joint_report.joint7, joint_report.joint_rest)

\* ------------------------------------------------------------------ C13
\* C13: if within one dialogue of the input the turn indices are not
\* ascending and contiguous (a gap, a repeat or a decrease), assembly fails
\* and emits no dataset.
IllOrderedTurnsFail ==
  dpc = "done" =>
    \A n \in 2..Len(examples) :
      CurrDialogueIdx(examples[n].guid) = CurrDialogueIdx(examples[n - 1].guid)
        => CurrTurnIdx(examples[n].guid) = CurrTurnIdx(examples[n - 1].guid) + 1

\* ------------------------------------------------------------------ C15
\* the examples whose every label is in its slot's candidate list
LabelsKnown(ex) ==
  \A s \in 1..Len(ex.label) : \E i \in 1..Len(label_list[s]) : label_list[s][i] = ex.label[s]

\* C15: a ground-truth label in its slot's candidate list is mapped to an
\* index i with candidates[i] equal to the label; a label absent from the
\* list makes construction fail, so no dataset is ever built from it.
LabelsMapped ==
  /\ \A f \in MadeFeatures : \A s \in 1..Len(f.label_id) :
       /\ f.label_id[s] \in 0..(Len(label_list[s]) - 1)
       /\ label_list[s][f.label_id[s] + 1] = examples[f.src].label[s]
  /\ dpc = "done" => \A n \in 1..Len(examples) : LabelsKnown(examples[n])
  /\ dpc = "error" => ~LabelsKnown(examples[ex_index + 1])
  /\ lpc # "idle" => dpc = "done"

\* construction failed on an unknown label after a feature with a known one
\* was made
LabelsWitness ==
  /\ dpc = "error"
  /\ Len(features) = 1
  /\ features[1].label_id = <<2, 1>>
  /\ examples[2].label[1] = "north"

\* ------------------------------------------------------------------ C18
\* C18: after construction from examples sorted by dialogue then turn, every
\* dialogue of all_features holds at least one feature, whatever dialogue
\* precedes it, so __getitem__ is defined for every index; an empty example
\* list gives a dataset of length 0.
DialoguesNonEmpty ==
  dpc = "done" =>
    /\ \A i \in 1..Len(all_features) :
         Len(all_features[i]) > 0 /\ ~GetItemRaises(all_features[i])
    /\ examples = <<>> => Len(all_features) = 0

\* ------------------------------------------------------------------ C19
\* C19: in the test loop, for every batch and every device count, the
\* pred_slot decoded for the batch is the tracker's output on that batch's
\* input_ids and input_len, never an undefined one nor one of an earlier
\* batch.
PredSlotIsOfBatch ==
  batch # NoBatch =>
    /\ pred_slot # Unbound
    /\ pred_slot = OffRange(Tracker(weights, batch.input_ids, batch.input_len),
                            id_shift)

\* ------------------------------------------------------------------ C20
\* the first of the epochs 0..n-1 with the highest dev accuracy
BestEpoch(n) ==
  CHOOSE e \in 0..(n - 1) :
    \A o \in 0..(n - 1) :
      \/ dev_metrics[o + 1].acc < dev_metrics[e + 1].acc
      \/ dev_metrics[o + 1].acc = dev_metrics[e + 1].acc /\ e <= o

\* C20: whenever the training loop runs, an epoch whose dev accuracy is the
\* first measured or strictly above the best so far saves the model to the
\* accuracy-best checkpoint, so after training the checkpoint holds the
\* model of the epoch with the highest dev accuracy.
BestAccuracySaved ==
  (LoopRuns(do_train) /\ num_train_epochs > 0 /\ rpc \in {"done", "error"}) =>
    /\ rpc = "done"
    /\ epoch > 0
    /\ acc_checkpoint = BestEpoch(epoch)

\* ------------------------------------------------------------------ C21
\* the smallest element of a non-empty set of numbers
MinOf(S) == CHOOSE x \in S : \A y \in S : x <= y

\* the latest of the epochs 0..n-1 whose dev loss term was the first
\* measured or strictly below every earlier one
LastImproved(n) ==
  MaxOf({e \in 0..(n - 1) :
           \A o \in 0..(e - 1) : dev_metrics[e + 1].loss < dev_metrics[o + 1].loss})

\* the early-stop test of line 903 at the end of epoch e
StopsAt(e) == LastImproved(e + 1) + patience <= e

\* C21: in the training loop, after every epoch best_acc is the highest dev
\* accuracy of the epochs run, best_loss the lowest tracked dev loss term and
\* last_update the latest epoch at which that term strictly improved; the
\* loop ends at the first epoch e with last_update + patience <= e, or after
\* num_train_epochs epochs, whichever comes first, and in no other way.
TrainingTracksBest ==
  LoopRuns(do_train) =>
    /\ rpc # "error"
    /\ (rpc \in {"loop", "done"} /\ epoch > 0) =>
         /\ best_acc = MaxOf({dev_metrics[e + 1].acc : e \in 0..(epoch - 1)})
         /\ best_loss = MinOf({dev_metrics[e + 1].loss : e \in 0..(epoch - 1)})
         /\ last_update = LastImproved(epoch)
         /\ \A e \in 0..(epoch - 2) : ~StopsAt(e)
    /\ rpc = "loop" => (epoch <= num_train_epochs /\ (epoch > 0 => ~StopsAt(epoch - 1)))
    /\ rpc = "done" =>
         \/ epoch > 0 /\ StopsAt(epoch - 1)
         \/ epoch = num_train_epochs

====
